---- MODULE Spec2Model ----
(***************************************************************************)
(* Model of ui-tauri/src-tauri/src/lib.rs: the Tauri shell entry point.    *)
(*                                                                         *)
(* run() chains Builder::default() -> .plugin(opener) -> .invoke_handler   *)
(* -> .run(context) -> .expect(msg).  While the UI host is running the     *)
(* frontend may invoke commands by name; the invoke handler generated by   *)
(* generate_handler! dispatches the two registered commands to the two     *)
(* accessor functions.                                                     *)
(***************************************************************************)
EXTENDS Naturals, Sequences, FiniteSets

VARIABLES
    pc,          \* position of the process in run(): see Startup, "running", "exited", "aborted"
    plugins,     \* plugins registered on the builder
    commands,    \* command names the builder's invoke handler answers
    calls,       \* invocations issued by the frontend, in order of issue
    hostResult,  \* the Result value Builder::run handed to .expect
    panic        \* the panic raised by .expect, if any

vars == <<pc, plugins, commands, calls, hostResult, panic>>

\* Largest number of invocations the frontend issues in one run of the model.
MaxCalls == 3

\* Command names the frontend may send; the last stands for any name that
\* is not listed in generate_handler!.
CommandNames == {"get_backend_url", "get_ws_url", "unknown_command"}

\* Error values Builder::run may return when the host fails to initialise.
HostErrors == {"Setup", "Runtime"}

\* Positions of run() before the host is running.
Startup == {"entry", "builder", "plugin", "handler"}

NoResult == [kind |-> "None", err |-> ""]
NoPanic == [panicked |-> FALSE, msg |-> "", err |-> ""]

-----------------------------------------------------------------------------
(* The two command functions.  Each takes no argument and returns an owned *)
(* String holding the bytes of its literal (str::to_string copies them).   *)

get_backend_url_wrong_port == "http://127.0.0.1:8081"

get_backend_url == "http://127.0.0.1:8080"

get_ws_url_wrong_path == "ws://127.0.0.1:8081/event"

get_ws_url == "ws://127.0.0.1:8081/events"

\* The command list of generate_handler![get_backend_url, get_ws_url].
HandlerCommands == {"get_backend_url", "get_ws_url"}

InvokeHandler_fallible(cmd) ==
    CASE cmd = "get_backend_url" -> [status |-> "resolved", value |-> get_backend_url]
      [] cmd = "get_ws_url"      -> [status |-> "rejected", value |-> ""]
      [] OTHER                   -> [status |-> "rejected", value |-> ""]

\* The handler generate_handler! expands to: match the command name, call
\* the function and resolve the invocation with its return value; a name
\* that is not in the list is not handled and the invocation is rejected.
InvokeHandler(cmd) ==
    CASE cmd = "get_backend_url" -> [status |-> "resolved", value |-> get_backend_url]
      [] cmd = "get_ws_url"      -> [status |-> "resolved", value |-> get_ws_url]
      [] OTHER                   -> [status |-> "rejected", value |-> ""]

\* What the host answers to an invocation of cmd when its invoke handler
\* answers the names in cmds (Builder::default() installs a handler that
\* answers none).
Dispatch(cmds, cmd) ==
    IF cmd \in cmds THEN InvokeHandler(cmd)
                    ELSE [status |-> "rejected", value |-> ""]

Resolve_shared(cs, i, cmds) ==
    LET r == Dispatch(cmds, cs[i].cmd)
    IN  [j \in 1..Len(cs) |->
            IF cs[j].status = "pending"
            THEN [cmd |-> cs[j].cmd, status |-> r.status, value |-> r.value]
            ELSE cs[j]]

\* The invocation list after the host has answered invocation i.
Resolve(cs, i, cmds) ==
    LET r == Dispatch(cmds, cs[i].cmd)
    IN  [cs EXCEPT ![i] = [cmd |-> cs[i].cmd, status |-> r.status, value |-> r.value]]

expect_swallow(result, msg) == NoPanic

\* Result::expect: Ok passes through, Err(e) panics with "<msg>: <e>".
expect(result, msg) ==
    IF result.kind = "Err"
    THEN [panicked |-> TRUE, msg |-> msg, err |-> result.err]
    ELSE NoPanic

\* The message handed to .expect in run().
ExpectMsg == "error while running tauri application"

\* Where run() is after .expect has looked at the result.
AfterExpect(p) == IF p.panicked THEN "aborted" ELSE "exited"

-----------------------------------------------------------------------------
Init ==
    /\ pc = "entry"
    /\ plugins = {}
    /\ commands = {}
    /\ calls = <<>>
    /\ hostResult = NoResult
    /\ panic = NoPanic

\* tauri::Builder::default()
BuilderDefault ==
    /\ pc = "entry"
    /\ pc' = "builder"
    /\ plugins' = {}
    /\ commands' = {}
    /\ UNCHANGED <<calls, hostResult, panic>>

\* .plugin(tauri_plugin_opener::init())
Plugin ==
    /\ pc = "builder"
    /\ pc' = "plugin"
    /\ plugins' = plugins \cup {"opener"}
    /\ UNCHANGED <<commands, calls, hostResult, panic>>

RegisterInvokeHandler_one ==
    /\ pc = "plugin"
    /\ pc' = "handler"
    /\ commands' = {"get_backend_url"}
    /\ UNCHANGED <<plugins, calls, hostResult, panic>>

\* .invoke_handler(tauri::generate_handler![get_backend_url, get_ws_url])
RegisterInvokeHandler ==
    /\ pc = "plugin"
    /\ pc' = "handler"
    /\ commands' = HandlerCommands
    /\ UNCHANGED <<plugins, calls, hostResult, panic>>

\* .run(context): the host initialises and starts its event loop.
RunStart ==
    /\ pc = "handler"
    /\ pc' = "running"
    /\ UNCHANGED <<plugins, commands, calls, hostResult, panic>>

\* .run(context) returns Err(e): the host failed to initialise; .expect
\* looks at the result.
RunErr(e) ==
    /\ pc = "handler"
    /\ hostResult' = [kind |-> "Err", err |-> e]
    /\ panic' = expect(hostResult', ExpectMsg)
    /\ pc' = AfterExpect(panic')
    /\ UNCHANGED <<plugins, commands, calls>>

\* The frontend invokes a command by name while the host is running.
Invoke(cmd) ==
    /\ pc = "running"
    /\ Len(calls) < MaxCalls
    /\ calls' = Append(calls, [cmd |-> cmd, status |-> "pending", value |-> ""])
    /\ UNCHANGED <<pc, plugins, commands, hostResult, panic>>

Respond_sideeffect(i) ==
    /\ pc = "running"
    /\ i \in 1..Len(calls)
    /\ calls[i].status = "pending"
    /\ calls' = Resolve(calls, i, commands)
    /\ commands' = commands \ {calls[i].cmd}
    /\ UNCHANGED <<pc, plugins, hostResult, panic>>

\* The host hands invocation i to the invoke handler and answers it.
Respond(i) ==
    /\ pc = "running"
    /\ i \in 1..Len(calls)
    /\ calls[i].status = "pending"
    /\ calls' = Resolve(calls, i, commands)
    /\ UNCHANGED <<pc, plugins, commands, hostResult, panic>>

HostExit_restart ==
    /\ pc = "running"
    /\ pc' = "entry"
    /\ UNCHANGED <<plugins, commands, calls, hostResult, panic>>

\* The event loop ends: .run(context) is over with Ok(()), .expect passes
\* it through, run() returns and the process exits.  Invocations still
\* pending are never answered.
HostExit ==
    /\ pc = "running"
    /\ hostResult' = [kind |-> "Ok", err |-> ""]
    /\ panic' = expect(hostResult', ExpectMsg)
    /\ pc' = AfterExpect(panic')
    /\ UNCHANGED <<plugins, commands, calls>>

Next ==
    \/ BuilderDefault
    \/ Plugin
    \/ RegisterInvokeHandler
    \/ RunStart
    \/ \E e \in HostErrors : RunErr(e)
    \/ \E cmd \in CommandNames : Invoke(cmd)
    \/ \E i \in 1..Len(calls) : Respond(i)
    \/ HostExit

Spec == Init /\ [][Next]_vars

-----------------------------------------------------------------------------
TypeOK ==
    /\ pc \in Startup \cup {"running", "exited", "aborted"}
    /\ plugins \subseteq {"opener"}
    /\ commands \subseteq CommandNames
    /\ Len(calls) <= MaxCalls
    /\ \A i \in 1..Len(calls) :
          /\ calls[i].cmd \in CommandNames
          /\ calls[i].status \in {"pending", "resolved", "rejected"}

Answered(i) == i \in 1..Len(calls) /\ calls[i].status # "pending"

\* An invocation of one of the two accessors is answered in this step.
AccessorAnswered ==
    \E i \in 1..Len(calls) :
        /\ calls[i].cmd \in HandlerCommands
        /\ calls[i].status = "pending"
        /\ calls'[i].status # "pending"

-----------------------------------------------------------------------------
\* C1: every answered invocation of get_backend_url, whatever was invoked
\* before it and however often, was resolved with exactly the string
\* "http://127.0.0.1:8080".
C1_BackendUrlIsConstant ==
    \A i \in 1..Len(calls) :
        (calls[i].cmd = "get_backend_url" /\ Answered(i)) =>
            /\ calls[i].status = "resolved"
            /\ calls[i].value = "http://127.0.0.1:8080"

\* get_backend_url answered a third time, after an answered get_ws_url.
C1_Witness ==
    /\ Len(calls) = 3
    /\ calls[1].cmd = "get_ws_url" /\ Answered(1)
    /\ calls[2].cmd = "get_backend_url" /\ Answered(2)
    /\ calls[3].cmd = "get_backend_url" /\ Answered(3)

\* C2: every answered invocation of get_ws_url, whatever was invoked before
\* it and however often, was resolved with exactly the string
\* "ws://127.0.0.1:8081/events".
C2_WsUrlIsConstant ==
    \A i \in 1..Len(calls) :
        (calls[i].cmd = "get_ws_url" /\ Answered(i)) =>
            /\ calls[i].status = "resolved"
            /\ calls[i].value = "ws://127.0.0.1:8081/events"

\* get_ws_url answered twice, after an answered get_backend_url.
C2_Witness ==
    /\ Len(calls) = 3
    /\ calls[1].cmd = "get_backend_url" /\ Answered(1)
    /\ calls[2].cmd = "get_ws_url" /\ Answered(2)
    /\ calls[3].cmd = "get_ws_url" /\ Answered(3)

\* C3: the accessors are pure and deterministic.  A step that answers an
\* accessor invocation leaves the lifecycle position, the plugins, the
\* registered commands, the host result and the panic unchanged, and leaves
\* what the host would answer to either accessor unchanged; and any two
\* answered invocations of the same accessor, wherever they stand in the
\* history, carry the same answer.
C3_Frame ==
    AccessorAnswered =>
        /\ UNCHANGED <<pc, plugins, commands, hostResult, panic>>
        /\ \A c \in HandlerCommands : Dispatch(commands', c) = Dispatch(commands, c)

C3_SameAnswer ==
    \A i, j \in 1..Len(calls) :
        (/\ calls[i].cmd \in HandlerCommands
         /\ calls[i].cmd = calls[j].cmd
         /\ Answered(i) /\ Answered(j)) =>
            /\ calls[i].status = calls[j].status
            /\ calls[i].value = calls[j].value

C3_PureAccessors == []C3_SameAnswer /\ [][C3_Frame]_vars

\* The same accessor answered first and last, the other one in between.
C3_Witness ==
    /\ Len(calls) = 3
    /\ calls[1].cmd = "get_ws_url" /\ Answered(1)
    /\ calls[2].cmd = "get_backend_url" /\ Answered(2)
    /\ calls[3].cmd = "get_ws_url" /\ Answered(3)

\* C4: an accessor invocation cannot fail.  Whenever one has been answered
\* the answer is a resolved string, never a rejection, and the step that
\* answers it neither raises a panic nor moves the process to "aborted".
C4_Resolved ==
    \A i \in 1..Len(calls) :
        (calls[i].cmd \in HandlerCommands /\ Answered(i)) =>
            /\ calls[i].status = "resolved"
            /\ calls[i].value \in STRING
            /\ calls[i].value # ""

C4_NoAbort ==
    AccessorAnswered => (pc' # "aborted" /\ panic' = NoPanic)

C4_AccessorsCannotFail == []C4_Resolved /\ [][C4_NoAbort]_vars

\* Both accessors answered while the host is still running.
C4_Witness ==
    /\ pc = "running"
    /\ Len(calls) = 2
    /\ calls[1].cmd = "get_backend_url" /\ Answered(1)
    /\ calls[2].cmd = "get_ws_url" /\ Answered(2)

\* C5: the only failure path of run() is a host failure.  Once Builder::run
\* has returned an error the process is aborted with the panic message
\* "error while running tauri application" (never exited normally); a step
\* reaches "aborted" only from the .run call with an error result; and no
\* step leaves "aborted".
C5_ErrIsFatal ==
    /\ hostResult.kind = "Err" =>
          /\ pc = "aborted"
          /\ panic.panicked
          /\ panic.msg = "error while running tauri application"
          /\ panic.err = hostResult.err
    /\ pc = "aborted" => hostResult.kind = "Err"

C5_AbortStep ==
    /\ (pc' = "aborted" /\ pc # "aborted") =>
          (pc = "handler" /\ hostResult'.kind = "Err")
    /\ pc = "aborted" => UNCHANGED vars

C5_OnlyHostFailureAborts == []C5_ErrIsFatal /\ [][C5_AbortStep]_vars

\* The host failed to initialise and the process is aborted.
C5_Witness ==
    /\ pc = "aborted"
    /\ hostResult = [kind |-> "Err", err |-> "Setup"]
    /\ panic.panicked

\* C6: the lifecycle is startup -> running -> exited, plus startup ->
\* aborted.  "running" is entered only from startup, "exited" only from
\* "running", "aborted" only from startup; no step leaves "exited" or
\* "aborted"; no step leads back into startup or back from a later phase
\* into "running"; and a process that exited raised no panic.
C6_Step ==
    /\ (pc' = "running" /\ pc # "running") => pc \in Startup
    /\ (pc' = "exited" /\ pc # "exited") => pc = "running"
    /\ (pc' = "aborted" /\ pc # "aborted") => pc \in Startup
    /\ pc \in {"exited", "aborted"} => UNCHANGED vars
    /\ pc' \in Startup => pc \in Startup
    /\ pc' \in Startup \cup {"running", "exited", "aborted"}

C6_Exclusive ==
    /\ pc = "exited" => (~panic.panicked /\ hostResult.kind = "Ok")
    /\ pc = "aborted" => (panic.panicked /\ hostResult.kind = "Err")

C6_Lifecycle == []C6_Exclusive /\ [][C6_Step]_vars

\* The process went through startup and running and has exited, with an
\* invocation answered on the way.
C6_Witness ==
    /\ pc = "exited"
    /\ plugins = {"opener"}
    /\ Len(calls) >= 1
    /\ Answered(1)

\* What the host answers to cmd when it is the only invocation of a run.
RunAlone(cmd) ==
    Resolve(<<[cmd |-> cmd, status |-> "pending", value |-> ""]>>, 1, HandlerCommands)[1]

\* C7: interleaved invocations do not interfere.  A step changes at most the
\* one invocation it issues or answers: an answered invocation never changes
\* again, answering an invocation leaves every other one (pending or
\* answered) as it was, and an accessor invocation is answered exactly as it
\* is when it is the only invocation of a run.
C7_Step ==
    /\ Len(calls') >= Len(calls)
    /\ \A i \in 1..Len(calls) :
          calls'[i] # calls[i] =>
              /\ calls[i].status = "pending"
              /\ \A j \in 1..Len(calls) : j # i => calls'[j] = calls[j]
              /\ Len(calls') = Len(calls)
              /\ calls[i].cmd \in HandlerCommands => calls'[i] = RunAlone(calls[i].cmd)

C7_NoInterference == [][C7_Step]_vars

\* Three invocations in flight together, the middle one answered first
\* while the two around it are still pending.
C7_Witness ==
    /\ Len(calls) = 3
    /\ calls[1].cmd = "get_backend_url" /\ calls[1].status = "pending"
    /\ calls[2].cmd = "get_ws_url" /\ calls[2].status = "resolved"
    /\ calls[3].cmd = "get_backend_url" /\ calls[3].status = "pending"

\* C8: once the host is running (and after), the opener plugin is
\* registered and the invoke handler answers exactly get_backend_url and
\* get_ws_url: the registered set is that set in every such state, both
\* names are resolved, every other name is rejected, and no invocation is
\* issued or answered before the host runs.
C8_Registered ==
    /\ pc \in {"running", "exited"} =>
          /\ plugins = {"opener"}
          /\ commands = {"get_backend_url", "get_ws_url"}
          /\ \A c \in CommandNames :
                (Dispatch(commands, c).status = "resolved")
                    <=> c \in {"get_backend_url", "get_ws_url"}
    /\ pc \in Startup => calls = <<>>
    /\ \A i \in 1..Len(calls) :
          (Answered(i) /\ calls[i].cmd \notin {"get_backend_url", "get_ws_url"}) =>
              calls[i].status = "rejected"

\* The running host has resolved a registered command and rejected an
\* unregistered one.
C8_Witness ==
    /\ pc = "running"
    /\ Len(calls) = 2
    /\ calls[1].cmd = "unknown_command" /\ calls[1].status = "rejected"
    /\ calls[2].cmd = "get_ws_url" /\ calls[2].status = "resolved"

====
